---------------------------- MODULE Spec2Model ----------------------------
(***************************************************************************)
(* A model of harvest-mcp-server.py: the Finnish holiday calendar and the  *)
(* working-day counter (pure functions), the API client wrapper            *)
(* harvest_request, the tool wrappers that build its parameters, and the   *)
(* monthly work-percentage aggregation.                                    *)
(*                                                                         *)
(* Units: hours are held in hundredths of an hour (Harvest's two-decimal   *)
(* hours), so 7.5 h is 750; the work percentage is held in tenths of a     *)
(* percent, so 71.4 % is 714.                                              *)
(***************************************************************************)
EXTENDS Integers, Sequences, FiniteSets, TLC

VARIABLES
    pc,                     \* position of the running call
    year, month,            \* arguments of the calendar functions / the monthly tool
    holidays,               \* list returned by get_finnish_public_holidays
    working_days,           \* value returned by count_working_days
    tool, args,             \* the tool invoked and its arguments
    request,                \* what harvest_request hands to the HTTP client
    requests,               \* number of HTTP requests issued by this invocation
    response,               \* the HTTP response (status_code, text, json)
    error,                  \* the exception raised by harvest_request
    result,                 \* the value the tool hands to json.dumps
    entries, idx,           \* the aggregation loop: the list and entries done
    total_hours, actual_work_hours, public_holiday_hours,
    paid_leave_hours, unpaid_absence_hours,
    by_client, by_category,
    expected_hours, work_percentage

calvars == <<year, month, holidays, working_days>>
reqvars == <<tool, args, request, requests, response, error, result>>
aggvars == <<entries, idx, total_hours, actual_work_hours, public_holiday_hours,
             paid_leave_hours, unpaid_absence_hours, by_client, by_category,
             expected_hours, work_percentage>>
vars == <<pc, calvars, reqvars, aggvars>>

(***************************************************************************)
(* Bounds.                                                                 *)
(***************************************************************************)
MinYear == 1900
MaxYear == 2100
MaxTimeEntries == 3
MaxMonthEntries == 2

(***************************************************************************)
(* datetime.date, timedelta and calendar.monthrange as the code uses them. *)
(***************************************************************************)
Date(y, m, d) == [year |-> y, month |-> m, day |-> d]

IsLeap(y) == y % 4 = 0 /\ (y % 100 # 0 \/ y % 400 = 0)

\* calendar.monthrange(year, month)[1]
DaysInMonth(y, m) ==
    IF m = 2 THEN (IF IsLeap(y) THEN 29 ELSE 28)
    ELSE IF m \in {4, 6, 9, 11} THEN 30 ELSE 31

DaysBeforeYear(y) ==
    LET p == y - 1 IN p * 365 + (p \div 4) - (p \div 100) + (p \div 400)

RECURSIVE DaysBeforeMonth(_, _)
DaysBeforeMonth(y, m) ==
    IF m = 1 THEN 0 ELSE DaysBeforeMonth(y, m - 1) + DaysInMonth(y, m - 1)

\* date.toordinal(): day 1 is 0001-01-01
ToOrdinal(d) == DaysBeforeYear(d.year) + DaysBeforeMonth(d.year, d.month) + d.day

\* date.fromordinal(n), the library's divmod decomposition
FromOrdinal(ord) ==
    LET n0   == ord - 1
        n400 == n0 \div 146097
        r400 == n0 % 146097
        n100 == r400 \div 36524
        r100 == r400 % 36524
        n4   == r100 \div 1461
        r4   == r100 % 1461
        n1   == r4 \div 365
        n    == r4 % 365
        y    == n400 * 400 + 1 + n100 * 100 + n4 * 4 + n1
    IN  IF n1 = 4 \/ n100 = 4 THEN Date(y - 1, 12, 31)
        ELSE LET m0 == (n + 50) \div 32
                 p0 == DaysBeforeMonth(y, m0)
                 m  == IF p0 > n THEN m0 - 1 ELSE m0
                 p  == DaysBeforeMonth(y, m)
             IN  Date(y, m, n - p + 1)

\* date.weekday(): 0 = Monday ... 6 = Sunday
Weekday(d) == (ToOrdinal(d) + 6) % 7

\* date + timedelta(days=n)
AddDays(d, n) == FromOrdinal(ToOrdinal(d) + n)

(***************************************************************************)
(* get_finnish_public_holidays                                             *)
(***************************************************************************)
\* Midsummer Eve: June 20 when it is a Friday, else the next Friday
MidsummerEve(y) ==
    LET j == Date(y, 6, 20)
    IN  IF Weekday(j) = 4 THEN j ELSE AddDays(j, (4 - Weekday(j)) % 7)

\* The fixed-rule holidays, in list order
FixedHolidays(y) ==
    << Date(y, 1, 1), Date(y, 1, 6), Date(y, 5, 1), MidsummerEve(y),
       Date(y, 12, 6), Date(y, 12, 24), Date(y, 12, 25), Date(y, 12, 26) >>

\* Easter Sunday with l computed without the constant 32 (a slip in the formula)
EasterSundayNo32(y) ==
    LET a == y % 19
        b == y \div 100
        c == y % 100
        d == b \div 4
        e == b % 4
        f == (b + 8) \div 25
        g == (b - f + 1) \div 3
        h == (19 * a + b - d - g + 15) % 30
        i == c \div 4
        k == c % 4
        l == (2 * e + 2 * i - h - k) % 7
        m == (a + 11 * h + 22 * l) \div 451
    IN  Date(y, (h + l - 7 * m + 114) \div 31, ((h + l - 7 * m + 114) % 31) + 1)

\* Easter Sunday, Anonymous Gregorian algorithm
EasterSunday(y) ==
    LET a == y % 19
        b == y \div 100
        c == y % 100
        d == b \div 4
        e == b % 4
        f == (b + 8) \div 25
        g == (b - f + 1) \div 3
        h == (19 * a + b - d - g + 15) % 30
        i == c \div 4
        k == c % 4
        l == (32 + 2 * e + 2 * i - h - k) % 7
        m == (a + 11 * h + 22 * l) \div 451
    IN  Date(y, (h + l - 7 * m + 114) \div 31, ((h + l - 7 * m + 114) % 31) + 1)

\* The list without Easter Sunday itself (an entry dropped from the extend)
get_finnish_public_holidays_NoSunday(y) ==
    LET easter == EasterSunday(y)
    IN  FixedHolidays(y) \o
        << AddDays(easter, -2), AddDays(easter, 1), AddDays(easter, 39) >>

get_finnish_public_holidays(y) ==
    LET easter == EasterSunday(y)
    IN  FixedHolidays(y) \o
        << AddDays(easter, -2), easter, AddDays(easter, 1), AddDays(easter, 39) >>

(***************************************************************************)
(* count_working_days                                                      *)
(***************************************************************************)
\* d in holidays (list membership by value)
InList(d, hs) == \E i \in 1..Len(hs) : hs[i] = d

\* The for loop over range(1, days_in_month + 1), from day `day` on
RECURSIVE CountFrom(_, _, _, _, _)
CountFrom(y, m, day, last, hs) ==
    IF day > last THEN 0
    ELSE (IF Weekday(Date(y, m, day)) < 5 /\ ~InList(Date(y, m, day), hs)
          THEN 1 ELSE 0)
         + CountFrom(y, m, day + 1, last, hs)

\* Weekdays of the month minus the month's entries of the holiday list
RECURSIVE WeekdaysFrom(_, _, _, _)
WeekdaysFrom(y, m, day, last) ==
    IF day > last THEN 0
    ELSE (IF Weekday(Date(y, m, day)) < 5 THEN 1 ELSE 0)
         + WeekdaysFrom(y, m, day + 1, last)

count_working_days_Subtract(y, m) ==
    LET hs == get_finnish_public_holidays(y)
    IN  WeekdaysFrom(y, m, 1, DaysInMonth(y, m))
        - Cardinality({i \in 1..Len(hs) : hs[i].month = m})

count_working_days(y, m) ==
    CountFrom(y, m, 1, DaysInMonth(y, m), get_finnish_public_holidays(y))

(***************************************************************************)
(* Values a variable holds while the step that sets it has not run.        *)
(***************************************************************************)
None == "None"
NoDict == [k \in {} |-> None]
NoRequest == [path |-> "", method |-> "", has_params |-> FALSE, params |-> NoDict]
NoResponse == [status_code |-> 0, text |-> "", json |-> [unset |-> TRUE]]
NoError == [raised |-> FALSE, status_code |-> 0, text |-> ""]
NoResult == [unset |-> TRUE]

CalIdle ==
    /\ holidays = << >>
    /\ working_days = 0
ReqIdle ==
    /\ tool = None
    /\ args = NoDict
    /\ request = NoRequest
    /\ requests = 0
    /\ response = NoResponse
    /\ error = NoError
    /\ result = NoResult
AggIdle ==
    /\ entries = << >>
    /\ idx = 0
    /\ total_hours = 0
    /\ actual_work_hours = 0
    /\ public_holiday_hours = 0
    /\ paid_leave_hours = 0
    /\ unpaid_absence_hours = 0
    /\ by_client = << >>
    /\ by_category = [actual_work |-> 0, public_holiday |-> 0,
                      paid_leave |-> 0, unpaid_absence |-> 0]
    /\ expected_hours = 0
    /\ work_percentage = 0

(***************************************************************************)
(* The calendar functions applied to every year and month of the bounds.   *)
(***************************************************************************)
CalInit ==
    /\ pc = "start"
    /\ year \in MinYear..MaxYear
    /\ month \in 1..12
    /\ CalIdle /\ ReqIdle /\ AggIdle

CallGetHolidays ==
    /\ pc = "start"
    /\ holidays' = get_finnish_public_holidays(year)
    /\ pc' = "holidays"
    /\ UNCHANGED <<year, month, working_days, reqvars, aggvars>>

CallCountWorkingDays ==
    /\ pc = "holidays"
    /\ working_days' = count_working_days(year, month)
    /\ pc' = "counted"
    /\ UNCHANGED <<year, month, holidays, reqvars, aggvars>>

CalNext == CallGetHolidays \/ CallCountWorkingDays

SpecCalendar == CalInit /\ [][CalNext]_vars

(***************************************************************************)
(* Python values that cross the tool boundary: None, bool, int, float      *)
(* (hundredths) and str, each tagged with its type so that the string      *)
(* "200" and the integer 200 stay different values.                        *)
(***************************************************************************)
Null == [kind |-> "null", s |-> "", n |-> 0]
VBool(b) == [kind |-> "bool", s |-> "", n |-> IF b THEN 1 ELSE 0]
VInt(i) == [kind |-> "int", s |-> "", n |-> i]
VFloat(h) == [kind |-> "float", s |-> "", n |-> h]
VStr(t) == [kind |-> "str", s |-> t, n |-> 0]

\* `x is not None`
IsNotNone(v) == v.kind # "null"

\* `if x:` -- Python truthiness
Truthy(v) == IF v.kind = "str" THEN v.s # "" ELSE v.n # 0

\* str(x) of an int
StrOf(v) == VStr(ToString(v.n))

\* A boolean passed on as it is (the native encoding)
BoolStr_Native(v) == v

\* "true" if x else "false"
BoolStr(v) == VStr(IF Truthy(v) THEN "true" ELSE "false")

\* params[k] = v
Put(p, k, v) == [x \in DOMAIN p \cup {k} |-> IF x = k THEN v ELSE p[x]]

\* dict.get(k, default) on a JSON object
Get(doc, k, default) == IF k \in DOMAIN doc THEN doc[k] ELSE default

(***************************************************************************)
(* harvest_request: one HTTP request, then the status check.               *)
(***************************************************************************)
\* The request handed to httpx: params is the query string for GET and the
\* JSON body otherwise; has_params is FALSE when params is None.
GetRequest(path, params) ==
    [path |-> path, method |-> "GET", has_params |-> TRUE, params |-> params]
GetRequestNoParams(path) ==
    [path |-> path, method |-> "GET", has_params |-> FALSE, params |-> NoDict]
BodyRequest(method, path, params) ==
    [path |-> path, method |-> method, has_params |-> TRUE, params |-> params]
BodyRequestNoParams(method, path) ==
    [path |-> path, method |-> method, has_params |-> FALSE, params |-> NoDict]

\* Any 2xx status taken for success
StatusOk_Any2xx(status_code) == status_code \in 200..299

\* response.status_code in (200, 201)
StatusOk(status_code) == status_code \in {200, 201}

\* Exception(f"Harvest API Error: {response.status_code} {response.text}")
ApiError(resp) == [raised |-> TRUE, status_code |-> resp.status_code, text |-> resp.text]

(***************************************************************************)
(* The parameter dictionaries the tool wrappers build.                     *)
(***************************************************************************)
list_users_params(a) ==
    LET p1 == Put(NoDict, "is_active",
                  IF IsNotNone(a.is_active) THEN BoolStr(a.is_active) ELSE VStr("true"))
        p2 == IF IsNotNone(a.page) THEN Put(p1, "page", StrOf(a.page)) ELSE p1
    IN  Put(p2, "per_page",
            IF IsNotNone(a.per_page) THEN StrOf(a.per_page) ELSE VInt(200))

list_time_entries_params(a) ==
    LET p1 == IF IsNotNone(a.user_id) THEN Put(NoDict, "user_id", StrOf(a.user_id)) ELSE NoDict
        p2 == IF IsNotNone(a.from_date) THEN Put(p1, "from", a.from_date) ELSE p1
        p3 == IF IsNotNone(a.to_date) THEN Put(p2, "to", a.to_date) ELSE p2
        p4 == IF IsNotNone(a.is_running) THEN Put(p3, "is_running", BoolStr(a.is_running)) ELSE p3
    IN  IF IsNotNone(a.is_billable) THEN Put(p4, "is_billable", BoolStr(a.is_billable)) ELSE p4

\* notes sent whatever its value, None included
create_time_entry_params_AlwaysNotes(a) ==
    [project_id |-> a.project_id, task_id |-> a.task_id,
     spent_date |-> a.spent_date, hours |-> a.hours, notes |-> a.notes]

create_time_entry_params(a) ==
    LET p == [project_id |-> a.project_id, task_id |-> a.task_id,
              spent_date |-> a.spent_date, hours |-> a.hours]
    IN  IF Truthy(a.notes) THEN Put(p, "notes", a.notes) ELSE p

start_timer_params(a) ==
    LET p == [project_id |-> a.project_id, task_id |-> a.task_id]
    IN  IF Truthy(a.notes) THEN Put(p, "notes", a.notes) ELSE p

list_projects_params(a) ==
    LET p1 == IF IsNotNone(a.client_id) THEN Put(NoDict, "client_id", StrOf(a.client_id)) ELSE NoDict
    IN  IF IsNotNone(a.is_active) THEN Put(p1, "is_active", BoolStr(a.is_active)) ELSE p1

\* list_clients and list_tasks build the same dictionary
is_active_params(a) ==
    IF IsNotNone(a.is_active) THEN Put(NoDict, "is_active", BoolStr(a.is_active)) ELSE NoDict

get_unsubmitted_timesheets_params(a) ==
    LET p1 == IF IsNotNone(a.user_id) THEN Put(NoDict, "user_id", StrOf(a.user_id)) ELSE NoDict
        p2 == IF IsNotNone(a.from_date) THEN Put(p1, "from", a.from_date) ELSE p1
        p3 == IF IsNotNone(a.to_date) THEN Put(p2, "to", a.to_date) ELSE p2
        p4 == IF IsNotNone(a.page) THEN Put(p3, "page", StrOf(a.page)) ELSE p3
    IN  Put(p4, "per_page",
            IF IsNotNone(a.per_page) THEN StrOf(a.per_page) ELSE VStr("200"))

(***************************************************************************)
(* get_unsubmitted_timesheets: the client-side filter and the envelope.    *)
(***************************************************************************)
\* Every entry kept, closed or not
RECURSIVE FilterUnsubmitted_KeepAll(_, _, _)
FilterUnsubmitted_KeepAll(es, i, acc) ==
    IF i > Len(es) THEN acc
    ELSE FilterUnsubmitted_KeepAll(es, i + 1, Append(acc, es[i]))

\* for entry in response["time_entries"]: if not entry.get("is_closed", False): append
RECURSIVE FilterUnsubmitted(_, _, _)
FilterUnsubmitted(es, i, acc) ==
    IF i > Len(es) THEN acc
    ELSE FilterUnsubmitted(es, i + 1,
             IF ~Get(es[i], "is_closed", FALSE) THEN Append(acc, es[i]) ELSE acc)

UnsubmittedResponse(doc) ==
    LET unsubmitted_entries ==
            IF "time_entries" \in DOMAIN doc
            THEN FilterUnsubmitted(doc.time_entries, 1, << >>)
            ELSE << >>
    IN  [time_entries |-> unsubmitted_entries,
         per_page |-> Get(doc, "per_page", Len(unsubmitted_entries)),
         total_pages |-> 1,
         total_entries |-> Len(unsubmitted_entries),
         next_page |-> None,
         previous_page |-> None,
         page |-> Get(doc, "page", 1),
         links |-> Get(doc, "links", NoDict)]

\* What each wrapper hands to json.dumps once harvest_request has returned
ToolResult(t, doc) ==
    IF t = "get_unsubmitted_timesheets" THEN UnsubmittedResponse(doc) ELSE doc

(***************************************************************************)
(* The remote service: a JSON document on a success status, an error body  *)
(* on any other status.  text is the raw body, json what response.json()   *)
(* makes of it.  The code never reads the raw text of a success response,  *)
(* so a document's text is held as the one string "<json document>".       *)
(***************************************************************************)
NotJson == [not_json |-> TRUE]

ErrorBodies ==
    { [text |-> "", json |-> NotJson],
      [text |-> "Not Found", json |-> NotJson],
      [text |-> "{\"error\": \"invalid_token\"}", json |-> [error |-> "invalid_token"]] }

JsonBody(doc) == [text |-> "<json document>", json |-> doc]

ServiceResponses(docs) ==
    { [status_code |-> sc, text |-> JsonBody(d).text, json |-> d] :
          sc \in {200, 201}, d \in docs }
    \cup
    { [status_code |-> sc, text |-> b.text, json |-> b.json] :
          sc \in {204, 400, 404, 500}, b \in ErrorBodies }

\* Time entries as the list endpoints return them: entry i of a list has id i
\* and is open, closed, or carries no is_closed key.
TimeEntry(i, flag) ==
    IF flag = "absent" THEN [id |-> i]
    ELSE [id |-> i, is_closed |-> (flag = "closed")]

TimeEntryLists ==
    UNION { { [i \in 1..n |-> TimeEntry(i, f[i])] :
                f \in [1..n -> {"open", "closed", "absent"}] } :
            n \in 0..MaxTimeEntries }

\* A full pagination envelope, a bare one, and a document with no list at all
ListDocs ==
    { [time_entries |-> es, per_page |-> 50, total_pages |-> 3,
       total_entries |-> 120, next_page |-> 3, previous_page |-> 1,
       page |-> 2, links |-> [first |-> "page=1", last |-> "page=3"]] :
          es \in TimeEntryLists }
    \cup { [time_entries |-> es] : es \in TimeEntryLists }
    \cup { [id |-> 7, is_active |-> TRUE] }

(***************************************************************************)
(* Arguments the tools are called with.                                    *)
(***************************************************************************)
OptBool == {Null, VBool(TRUE), VBool(FALSE)}
OptId == {Null, VInt(7)}
OptPage == {Null, VInt(2)}
OptPerPage == {Null, VInt(50)}
OptNotes == {Null, VStr(""), VStr("review")}

ListUsersArgs == [is_active : OptBool, page : OptPage, per_page : OptPerPage]
ListTimeEntriesArgs ==
    [user_id : OptId, from_date : {Null, VStr("2025-02-01")},
     to_date : {Null, VStr("2025-02-28")}, is_running : OptBool, is_billable : OptBool]
CreateTimeEntryArgs ==
    [project_id : {VInt(11)}, task_id : {VInt(22)}, spent_date : {VStr("2025-02-03")},
     hours : {VFloat(0), VFloat(150)}, notes : OptNotes]
StartTimerArgs == [project_id : {VInt(11)}, task_id : {VInt(22)}, notes : OptNotes]
ListProjectsArgs == [client_id : OptId, is_active : OptBool]
IsActiveArgs == [is_active : OptBool]
UnsubmittedArgs ==
    [user_id : OptId, from_date : {Null, VStr("2025-02-01")},
     to_date : {Null, VStr("2025-02-28")}, page : OptPage, per_page : OptPerPage]

(***************************************************************************)
(* The tool wrappers, each up to its await of harvest_request.             *)
(***************************************************************************)
Init ==
    /\ pc = "idle"
    /\ year = 0
    /\ month = 0
    /\ CalIdle /\ ReqIdle /\ AggIdle

\* harvest_request up to the await: exactly one request goes out
Issue(t, a, req) ==
    /\ tool' = t
    /\ args' = a
    /\ request' = req
    /\ requests' = requests + 1
    /\ pc' = "awaiting"
    /\ UNCHANGED <<response, error, result, calvars, aggvars>>

list_users ==
    /\ pc = "idle"
    /\ \E a \in ListUsersArgs :
        Issue("list_users", a, GetRequest("users", list_users_params(a)))

get_user_details ==
    /\ pc = "idle"
    /\ \E a \in [user_id : {VInt(7)}] :
        Issue("get_user_details", a,
              GetRequestNoParams("users/" \o ToString(a.user_id.n)))

list_time_entries ==
    /\ pc = "idle"
    /\ \E a \in ListTimeEntriesArgs :
        Issue("list_time_entries", a,
              GetRequest("time_entries", list_time_entries_params(a)))

create_time_entry ==
    /\ pc = "idle"
    /\ \E a \in CreateTimeEntryArgs :
        Issue("create_time_entry", a,
              BodyRequest("POST", "time_entries", create_time_entry_params(a)))

stop_timer ==
    /\ pc = "idle"
    /\ \E a \in [time_entry_id : {VInt(33)}] :
        Issue("stop_timer", a,
              BodyRequestNoParams("PATCH",
                  "time_entries/" \o ToString(a.time_entry_id.n) \o "/stop"))

start_timer ==
    /\ pc = "idle"
    /\ \E a \in StartTimerArgs :
        Issue("start_timer", a,
              BodyRequest("POST", "time_entries", start_timer_params(a)))

list_projects ==
    /\ pc = "idle"
    /\ \E a \in ListProjectsArgs :
        Issue("list_projects", a, GetRequest("projects", list_projects_params(a)))

get_project_details ==
    /\ pc = "idle"
    /\ \E a \in [project_id : {VInt(11)}] :
        Issue("get_project_details", a,
              GetRequestNoParams("projects/" \o ToString(a.project_id.n)))

list_clients ==
    /\ pc = "idle"
    /\ \E a \in IsActiveArgs :
        Issue("list_clients", a, GetRequest("clients", is_active_params(a)))

get_client_details ==
    /\ pc = "idle"
    /\ \E a \in [client_id : {VInt(7)}] :
        Issue("get_client_details", a,
              GetRequestNoParams("clients/" \o ToString(a.client_id.n)))

list_tasks ==
    /\ pc = "idle"
    /\ \E a \in IsActiveArgs :
        Issue("list_tasks", a, GetRequest("tasks", is_active_params(a)))

get_unsubmitted_timesheets ==
    /\ pc = "idle"
    /\ \E a \in UnsubmittedArgs :
        Issue("get_unsubmitted_timesheets", a,
              GetRequest("time_entries", get_unsubmitted_timesheets_params(a)))

\* The awaited response arrives
Respond(docs) ==
    /\ \E r \in ServiceResponses(docs) : response' = r
    /\ pc' = "responded"
    /\ UNCHANGED <<tool, args, request, requests, error, result, calvars, aggvars>>

RespondToTool ==
    /\ pc = "awaiting"
    /\ Respond(ListDocs)

\* harvest_request after the await, and the rest of the wrapper: the error
\* propagates out of the tool, or the tool returns json.dumps(...) of its result
Complete ==
    /\ pc = "responded"
    /\ IF StatusOk(response.status_code)
       THEN /\ result' = ToolResult(tool, response.json)
            /\ pc' = "done"
            /\ UNCHANGED error
       ELSE /\ error' = ApiError(response)
            /\ pc' = "failed"
            /\ UNCHANGED result
    /\ UNCHANGED <<tool, args, request, requests, response, calvars, aggvars>>

Next ==
    \/ list_users
    \/ get_user_details
    \/ list_time_entries
    \/ create_time_entry
    \/ stop_timer
    \/ start_timer
    \/ list_projects
    \/ get_project_details
    \/ list_clients
    \/ get_client_details
    \/ list_tasks
    \/ get_unsubmitted_timesheets
    \/ RespondToTool
    \/ Complete

Spec == Init /\ [][Next]_vars

(***************************************************************************)
(* get_monthly_work_percentage: classification of a task name.             *)
(***************************************************************************)
UpperCase == "ABCDEFGHIJKLMNOPQRSTUVWXYZ"
LowerCase == "abcdefghijklmnopqrstuvwxyz"

\* (upper, lower) for each ASCII letter
CaseTable == [i \in 1..Len(UpperCase) |->
                 << SubSeq(UpperCase, i, i), SubSeq(LowerCase, i, i) >>]

LowerChar(c) ==
    IF \E i \in DOMAIN CaseTable : CaseTable[i][1] = c
    THEN CaseTable[CHOOSE i \in DOMAIN CaseTable : CaseTable[i][1] = c][2]
    ELSE c

\* str.lower()
RECURSIVE Lower(_)
Lower(str) ==
    IF Len(str) = 0 THEN ""
    ELSE LowerChar(SubSeq(str, 1, 1)) \o Lower(SubSeq(str, 2, Len(str)))

\* kw in task_name
Contains(str, kw) ==
    \E i \in 1..(Len(str) - Len(kw) + 1) : SubSeq(str, i, i + Len(kw) - 1) = kw

\* any(kw in task_name for kw in keywords)
AnyKeyword(str, keywords) == \E k \in 1..Len(keywords) : Contains(str, keywords[k])

absence_keywords == << "unpaid absence", "palkaton" >>
holiday_keywords == << "public holiday", "arkipyhä", "holiday" >>
leave_keywords == << "day-off", "flextime", "saldo", "vacation", "loma", "sick", "sairas" >>

\* The if/elif chain with the unpaid-absence test ahead of the holiday test
Classify_AbsenceFirst(task_name) ==
    IF AnyKeyword(task_name, absence_keywords) THEN "unpaid_absence"
    ELSE IF AnyKeyword(task_name, holiday_keywords) THEN "public_holiday"
    ELSE IF AnyKeyword(task_name, leave_keywords) THEN "paid_leave"
    ELSE "actual_work"

\* The if/elif chain of the loop body; task_name is already lower-cased
Classify(task_name) ==
    IF AnyKeyword(task_name, holiday_keywords) THEN "public_holiday"
    ELSE IF AnyKeyword(task_name, absence_keywords) THEN "unpaid_absence"
    ELSE IF AnyKeyword(task_name, leave_keywords) THEN "paid_leave"
    ELSE "actual_work"

EntryHours(e) == Get(e, "hours", 0)
EntryTaskName(e) == Lower(Get(Get(e, "task", NoDict), "name", ""))
EntryClientName(e) == Get(Get(e, "client", NoDict), "name", "Unknown")

\* by_client, a dict in insertion order: a list of (name, hours)
AddClientHours(bc, name, h) ==
    IF \E i \in 1..Len(bc) : bc[i].name = name
    THEN [i \in 1..Len(bc) |->
             IF bc[i].name = name THEN [name |-> name, hours |-> bc[i].hours + h]
             ELSE bc[i]]
    ELSE Append(bc, [name |-> name, hours |-> 0 + h])

\* The accumulators of the loop, as one record
Accumulators ==
    [total_hours |-> total_hours, actual_work_hours |-> actual_work_hours,
     public_holiday_hours |-> public_holiday_hours,
     paid_leave_hours |-> paid_leave_hours,
     unpaid_absence_hours |-> unpaid_absence_hours,
     by_client |-> by_client, by_category |-> by_category]

\* The loop body with the holiday branch also adding to total_hours
Accumulate_HolidayInTotal(acc, e) ==
    LET hours == EntryHours(e)
        cat   == Classify(EntryTaskName(e))
    IN  IF cat = "public_holiday"
        THEN [acc EXCEPT !.total_hours = @ + hours,
                         !.public_holiday_hours = @ + hours,
                         !.by_category.public_holiday = @ + hours]
        ELSE IF cat = "unpaid_absence"
        THEN [acc EXCEPT !.unpaid_absence_hours = @ + hours,
                         !.by_category.unpaid_absence = @ + hours]
        ELSE IF cat = "paid_leave"
        THEN [acc EXCEPT !.total_hours = @ + hours,
                         !.paid_leave_hours = @ + hours,
                         !.by_category.paid_leave = @ + hours]
        ELSE [acc EXCEPT !.total_hours = @ + hours,
                         !.actual_work_hours = @ + hours,
                         !.by_category.actual_work = @ + hours,
                         !.by_client = AddClientHours(@, EntryClientName(e), hours)]

\* One pass of the loop body over entry e
Accumulate(acc, e) ==
    LET hours == EntryHours(e)
        cat   == Classify(EntryTaskName(e))
    IN  IF cat = "public_holiday"
        THEN [acc EXCEPT !.public_holiday_hours = @ + hours,
                         !.by_category.public_holiday = @ + hours]
        ELSE IF cat = "unpaid_absence"
        THEN [acc EXCEPT !.unpaid_absence_hours = @ + hours,
                         !.by_category.unpaid_absence = @ + hours]
        ELSE IF cat = "paid_leave"
        THEN [acc EXCEPT !.total_hours = @ + hours,
                         !.paid_leave_hours = @ + hours,
                         !.by_category.paid_leave = @ + hours]
        ELSE [acc EXCEPT !.total_hours = @ + hours,
                         !.actual_work_hours = @ + hours,
                         !.by_category.actual_work = @ + hours,
                         !.by_client = AddClientHours(@, EntryClientName(e), hours)]

(***************************************************************************)
(* get_monthly_work_percentage: the figures after the loop.                *)
(***************************************************************************)
\* Expected hours not reduced by the unpaid absence
ExpectedHours_NoAbsence(wd, hpd, unpaid) == wd * hpd

\* working_days * hours_per_day - unpaid_absence_hours
ExpectedHours(wd, hpd, unpaid) == wd * hpd - unpaid

\* num / den to the nearest integer, ties to even (den > 0, num >= 0)
RoundHalfEven(num, den) ==
    LET q == num \div den
        r == num % den
    IN  IF 2 * r < den THEN q
        ELSE IF 2 * r > den THEN q + 1
        ELSE IF q % 2 = 0 THEN q ELSE q + 1

\* round((total_hours / expected_hours * 100) if expected_hours > 0 else 0, 1),
\* in tenths of a percent
WorkPercentage(total, expected) ==
    IF expected > 0 THEN RoundHalfEven(total * 1000, expected) ELSE 0

\* sorted(by_client.items(), key=lambda x: -x[1]): stable, descending hours
RECURSIVE InsertByHours(_, _)
InsertByHours(sorted, item) ==
    IF sorted = << >> THEN << item >>
    ELSE IF sorted[1].hours >= item.hours
         THEN << sorted[1] >> \o InsertByHours(Tail(sorted), item)
         ELSE << item >> \o sorted

RECURSIVE SortByHours(_)
SortByHours(bc) ==
    IF bc = << >> THEN << >>
    ELSE InsertByHours(SortByHours(SubSeq(bc, 1, Len(bc) - 1)), bc[Len(bc)])

\* f"{n:02d}"
Pad2(n) == IF n < 10 THEN "0" \o ToString(n) ELSE ToString(n)

\* f"{year}-{month:02d}"
Period(y, m) == ToString(y) \o "-" \o Pad2(m)

monthly_params(y, m) ==
    [from |-> VStr(Period(y, m) \o "-01"),
     to |-> VStr(Period(y, m) \o "-" \o Pad2(DaysInMonth(y, m))),
     per_page |-> VStr("2000")]

(***************************************************************************)
(* get_monthly_work_percentage as a state machine: the fetch, one step per *)
(* pass of the loop, and the closing computation.                          *)
(***************************************************************************)
TaskNames ==
    { "Development", "Public Holiday", "Unpaid absence", "VACATION",
      "Palkaton loma", "Sick on holiday", "Unpaid Absence (holiday week)" }

\* Entries of the month: 10 hours on each task name, 100 hours of development,
\* and entries that lack the client, the task, or the hours
MonthEntries ==
    { [hours |-> 1000, task |-> [name |-> t], client |-> [name |-> "Acme"]] :
          t \in TaskNames }
    \cup { [hours |-> 10000, task |-> [name |-> "Development"], client |-> [name |-> "Acme"]],
           [hours |-> 1000, task |-> [name |-> "Development"]],
           [hours |-> 1000, client |-> [name |-> "Beta"]],
           [task |-> [name |-> "Flextime"], client |-> [name |-> "Acme"]] }

MonthEntryLists ==
    UNION { [1..n -> MonthEntries] : n \in 0..MaxMonthEntries }

MonthDocs ==
    { [time_entries |-> es, per_page |-> 2000, total_pages |-> 1] :
          es \in MonthEntryLists }
    \cup { [message |-> "no entries"] }

MonthlyArgs ==
    { [year |-> VInt(ym[1]), month |-> VInt(ym[2]), hours_per_day |-> VFloat(hpd)] :
          ym \in { <<2025, 2>>, <<2024, 12>> }, hpd \in {750, 0} }

MonthlyInit == Init

get_monthly_work_percentage ==
    /\ pc = "idle"
    /\ \E a \in MonthlyArgs :
        /\ year' = a.year.n
        /\ month' = a.month.n
        /\ tool' = "get_monthly_work_percentage"
        /\ args' = a
        /\ request' = GetRequest("time_entries", monthly_params(a.year.n, a.month.n))
    /\ requests' = requests + 1
    /\ pc' = "awaiting"
    /\ UNCHANGED <<holidays, working_days, response, error, result, aggvars>>

RespondToMonthly ==
    /\ pc = "awaiting"
    /\ Respond(MonthDocs)

\* harvest_request after the await; on success the loop is set up
MonthlyFetched ==
    /\ pc = "responded"
    /\ IF StatusOk(response.status_code)
       THEN /\ entries' = Get(response.json, "time_entries", << >>)
            /\ pc' = "loop"
            /\ UNCHANGED error
       ELSE /\ error' = ApiError(response)
            /\ pc' = "failed"
            /\ UNCHANGED entries
    /\ UNCHANGED <<tool, args, request, requests, response, result, calvars,
                   idx, total_hours, actual_work_hours, public_holiday_hours,
                   paid_leave_hours, unpaid_absence_hours, by_client, by_category,
                   expected_hours, work_percentage>>

\* for entry in entries: one pass
MonthlyLoop ==
    /\ pc = "loop"
    /\ idx < Len(entries)
    /\ LET acc == Accumulate(Accumulators, entries[idx + 1])
       IN  /\ total_hours' = acc.total_hours
           /\ actual_work_hours' = acc.actual_work_hours
           /\ public_holiday_hours' = acc.public_holiday_hours
           /\ paid_leave_hours' = acc.paid_leave_hours
           /\ unpaid_absence_hours' = acc.unpaid_absence_hours
           /\ by_client' = acc.by_client
           /\ by_category' = acc.by_category
    /\ idx' = idx + 1
    /\ UNCHANGED <<pc, calvars, reqvars, entries, expected_hours, work_percentage>>

\* After the loop: working days, expected hours, percentage, the result
MonthlyFinish ==
    /\ pc = "loop"
    /\ idx = Len(entries)
    /\ working_days' = count_working_days(year, month)
    /\ expected_hours' =
           ExpectedHours(working_days', args.hours_per_day.n, unpaid_absence_hours)
    /\ work_percentage' = WorkPercentage(total_hours, expected_hours')
    /\ result' =
           [period |-> Period(year, month),
            working_days |-> working_days',
            hours_per_day |-> args.hours_per_day.n,
            expected_hours |-> expected_hours',
            summary |-> [total_logged_hours |-> total_hours,
                         unpaid_absence_hours |-> unpaid_absence_hours,
                         work_percentage |-> work_percentage'],
            breakdown |-> [actual_work |-> actual_work_hours,
                           public_holidays |-> public_holiday_hours,
                           paid_leave |-> paid_leave_hours,
                           unpaid_absence |-> unpaid_absence_hours],
            by_client |-> SortByHours(by_client)]
    /\ pc' = "done"
    /\ UNCHANGED <<year, month, holidays, tool, args, request, requests, response,
                   error, entries, idx, total_hours, actual_work_hours,
                   public_holiday_hours, paid_leave_hours, unpaid_absence_hours,
                   by_client, by_category>>

MonthlyNext ==
    \/ get_monthly_work_percentage
    \/ RespondToMonthly
    \/ MonthlyFetched
    \/ MonthlyLoop
    \/ MonthlyFinish

SpecMonthly == MonthlyInit /\ [][MonthlyNext]_vars

(***************************************************************************)
(* Properties of harvest_request and the tool wrappers (under Spec).       *)
(***************************************************************************)
\* C1: a response whose status is outside {200, 201} ends the invocation in
\* failure with an error carrying that status code and the raw body, after
\* exactly one request and with no result returned by the tool; a response
\* with status 200 or 201 ends it with the parsed JSON body returned (for
\* get_unsubmitted_timesheets: its filtered form), again after one request.
C1_ErrorPropagates ==
    /\ requests <= 1
    /\ pc \in {"awaiting", "responded", "done", "failed"} => requests = 1
    /\ pc = "failed" =>
          /\ response.status_code \notin {200, 201}
          /\ error.raised
          /\ error.status_code = response.status_code
          /\ error.text = response.text
          /\ result = NoResult
    /\ pc = "done" =>
          /\ response.status_code \in {200, 201}
          /\ ~error.raised
          /\ tool # "get_unsubmitted_timesheets" => result = response.json

\* C1 witness: a PATCH answered 500 "Not Found" has failed with that status and body.
C1_Witness ==
    /\ pc = "failed"
    /\ request.method = "PATCH"
    /\ error = [raised |-> TRUE, status_code |-> 500, text |-> "Not Found"]
    /\ requests = 1

\* The fetched list, and the test "not closed" on one of its entries
C2_Fetched == Get(response.json, "time_entries", << >>)
C2_NotClosed(e) == ~("is_closed" \in DOMAIN e /\ e.is_closed)

\* C2: get_unsubmitted_timesheets returns exactly the fetched entries whose
\* closed flag is false (an entry carrying no is_closed key is read as not
\* closed, the default the code gives the flag), in their original relative
\* order, with total_entries the number kept and total_pages 1 whatever the
\* fetched envelope's total_pages, total_entries and page are.
C2_UnsubmittedFilter ==
    (pc = "done" /\ tool = "get_unsubmitted_timesheets") =>
        /\ result.time_entries = SelectSeq(C2_Fetched, C2_NotClosed)
        /\ result.total_entries = Len(result.time_entries)
        /\ result.total_pages = 1

\* C2 witness: three entries fetched on page 2 of 3, the middle one closed:
\* entries 1 and 3 are returned, total_entries 2, total_pages 1.
C2_Witness ==
    /\ pc = "done"
    /\ tool = "get_unsubmitted_timesheets"
    /\ "total_pages" \in DOMAIN response.json
    /\ response.json.total_pages = 3
    /\ Len(C2_Fetched) = 3
    /\ result.time_entries = << C2_Fetched[1], C2_Fetched[3] >>
    /\ result.total_entries = 2

C9_NonNull(a) == {k \in DOMAIN a : a[k] # Null}

\* C9 as stated: the body of create_time_entry and start_timer holds exactly
\* the arguments supplied with a non-null value, each with its value, and
\* stop_timer (whose only argument is in the path) sends no body.
C9_Original ==
    /\ (pc # "idle" /\ tool \in {"create_time_entry", "start_timer"}) =>
          /\ request.has_params
          /\ DOMAIN request.params = C9_NonNull(args)
          /\ \A k \in DOMAIN request.params : request.params[k] = args[k]
    /\ (pc # "idle" /\ tool = "stop_timer") => ~request.has_params

\* C9 amended: the body of create_time_entry and start_timer holds every
\* required argument and holds notes exactly when notes is non-null and not
\* the empty string; each field carries the argument's value and none is
\* null; stop_timer sends no body.
C9_MutatingBody ==
    /\ (pc # "idle" /\ tool \in {"create_time_entry", "start_timer"}) =>
          /\ request.has_params
          /\ request.method = "POST"
          /\ DOMAIN request.params =
                 (DOMAIN args \ {"notes"})
                 \cup (IF args.notes \notin {Null, VStr("")} THEN {"notes"} ELSE {})
          /\ \A k \in DOMAIN request.params :
                 request.params[k] = args[k] /\ request.params[k] # Null
    /\ (pc # "idle" /\ tool = "stop_timer") =>
          ~request.has_params /\ request.method = "PATCH"

\* C9 witness: create_time_entry called with notes "" has sent a body without notes.
C9_Witness ==
    /\ pc = "awaiting"
    /\ tool = "create_time_entry"
    /\ args.notes = VStr("")
    /\ "notes" \notin DOMAIN request.params

ReadTools == {"list_users", "list_time_entries", "list_projects", "list_clients",
              "list_tasks", "get_unsubmitted_timesheets"}
C10_Key(arg) == IF arg = "from_date" THEN "from" ELSE IF arg = "to_date" THEN "to" ELSE arg
C10_SuppliedKeys == {C10_Key(k) : k \in C9_NonNull(args)}
C10_DefaultKeys ==
    IF tool = "list_users" THEN {"is_active", "per_page"}
    ELSE IF tool = "get_unsubmitted_timesheets" THEN {"per_page"}
    ELSE {}
C10_BooleansAsStrings ==
    \A k \in DOMAIN args :
        args[k].kind = "bool" =>
            request.params[C10_Key(k)] = VStr(IF args[k] = VBool(TRUE) THEN "true" ELSE "false")

\* C10 as stated: a read wrapper's query parameters hold a key exactly for
\* each argument the caller supplied, and a supplied boolean is sent as the
\* string "true" or "false".
C10_Original ==
    (pc # "idle" /\ tool \in ReadTools) =>
        /\ DOMAIN request.params = C10_SuppliedKeys
        /\ C10_BooleansAsStrings

\* C10 amended: a read wrapper's query parameters hold a key for each argument
\* the caller supplied and, beyond those, only the defaults the wrapper fills
\* in for an absent argument: list_users sends is_active "true" and per_page
\* 200 (an integer), get_unsubmitted_timesheets sends per_page "200"; no
\* value is null, and a supplied boolean is sent as the string "true" or "false".
C10_QueryParams ==
    (pc # "idle" /\ tool \in ReadTools) =>
        /\ request.has_params
        /\ request.method = "GET"
        /\ DOMAIN request.params = C10_SuppliedKeys \cup C10_DefaultKeys
        /\ \A k \in DOMAIN request.params : request.params[k] # Null
        /\ C10_BooleansAsStrings
        /\ (tool = "list_users" /\ args.is_active = Null) =>
               request.params["is_active"] = VStr("true")
        /\ (tool = "list_users" /\ args.per_page = Null) =>
               request.params["per_page"] = VInt(200)
        /\ (tool = "get_unsubmitted_timesheets" /\ args.per_page = Null) =>
               request.params["per_page"] = VStr("200")

\* C10 witness: list_users called with no argument has sent is_active and per_page.
C10_Witness ==
    /\ pc = "awaiting"
    /\ tool = "list_users"
    /\ C9_NonNull(args) = {}
    /\ DOMAIN request.params = {"is_active", "per_page"}

(***************************************************************************)
(* Properties of the calendar functions (under SpecCalendar).              *)
(***************************************************************************)
C6_Dates == {holidays[i] : i \in 1..Len(holidays)}
C6_InYear == \A i \in 1..Len(holidays) : holidays[i].year = year

\* C6 as stated: get_finnish_public_holidays(Y) returns exactly 11 holiday
\* dates, each within year Y.
C6_Original ==
    pc # "start" => (Len(holidays) = 11 /\ C6_InYear)

\* C6 amended: get_finnish_public_holidays(Y) returns a list of exactly 12
\* dates (the seven fixed holidays, Midsummer Eve, Good Friday, Easter
\* Sunday, Easter Monday, Ascension Day), each within year Y; the 12 are
\* distinct dates except in a year whose Ascension Day is May 1, when the
\* list holds that date twice and so 11 distinct dates.
C6_TwelveHolidays ==
    pc # "start" =>
        /\ Len(holidays) = 12
        /\ C6_InYear
        /\ Cardinality(C6_Dates) = (IF holidays[12] = Date(year, 5, 1) THEN 11 ELSE 12)

\* C6 witness: 2008, where Ascension Day is May 1 and the list holds 11 distinct dates.
C6_Witness ==
    /\ pc = "holidays"
    /\ year = 2008
    /\ Len(holidays) = 12
    /\ Cardinality(C6_Dates) = 11

C7_HasOffset(k) ==
    \E i \in 1..Len(holidays) :
        ToOrdinal(holidays[i]) = ToOrdinal(EasterSunday(year)) + k

\* C7: the Easter Sunday computed by get_finnish_public_holidays is March 31
\* for 2024 and April 20 for 2025, and for every year the returned holidays
\* contain Easter Sunday and the dates 2 days before, 1 day after and 39 days
\* after it.
C7_Easter ==
    pc # "start" =>
        /\ year = 2024 => (EasterSunday(year) = Date(2024, 3, 31)
                           /\ InList(Date(2024, 3, 31), holidays))
        /\ year = 2025 => (EasterSunday(year) = Date(2025, 4, 20)
                           /\ InList(Date(2025, 4, 20), holidays))
        /\ InList(EasterSunday(year), holidays)
        /\ C7_HasOffset(-2) /\ C7_HasOffset(1) /\ C7_HasOffset(39)

\* C7 witness: the holidays of 2025 hold April 18, 20, 21 and May 29.
C7_Witness ==
    /\ pc = "holidays"
    /\ year = 2025
    /\ InList(Date(2025, 4, 18), holidays)
    /\ InList(Date(2025, 4, 20), holidays)
    /\ InList(Date(2025, 4, 21), holidays)
    /\ InList(Date(2025, 5, 29), holidays)

C8_Weekdays ==
    {d \in 1..DaysInMonth(year, month) : Weekday(Date(year, month, d)) < 5}

\* C8: count_working_days(year, month) is the number of Monday-Friday dates of
\* the month that are not in get_finnish_public_holidays(year); with no
\* holiday in the month it is the number of Monday-Friday dates; it is 20 for
\* February 2025.  (Counting dates, a holiday on a weekend or listed twice
\* does not lower it.)
C8_WorkingDays ==
    pc = "counted" =>
        /\ working_days =
               Cardinality({d \in C8_Weekdays : Date(year, month, d) \notin C6_Dates})
        /\ (\A h \in C6_Dates : h.month # month) =>
               working_days = Cardinality(C8_Weekdays)
        /\ (year = 2025 /\ month = 2) => working_days = 20

\* C8 witness: May 2008, whose May 1 is listed twice (May Day and Ascension
\* Day) and whose 22 weekdays give 21 working days.
C8_Witness ==
    /\ pc = "counted"
    /\ year = 2008
    /\ month = 5
    /\ Cardinality(C8_Weekdays) = 22
    /\ working_days = 21

(***************************************************************************)
(* Properties of get_monthly_work_percentage (under SpecMonthly).          *)
(***************************************************************************)
C3_Name(e) == EntryTaskName(e)
C3_Holiday(e) == AnyKeyword(C3_Name(e), holiday_keywords)
C3_Absence(e) == AnyKeyword(C3_Name(e), absence_keywords)
C3_Leave(e) == AnyKeyword(C3_Name(e), leave_keywords)

\* The bucket the priority order holiday > unpaid absence > paid leave > actual
\* work gives an entry
C3_Bucket(e) ==
    CASE C3_Holiday(e) -> "public_holiday"
      [] ~C3_Holiday(e) /\ C3_Absence(e) -> "unpaid_absence"
      [] ~C3_Holiday(e) /\ ~C3_Absence(e) /\ C3_Leave(e) -> "paid_leave"
      [] OTHER -> "actual_work"

\* The bucket of each task name of the model, written out
C3_Expected(e) ==
    LET raw == Get(Get(e, "task", NoDict), "name", "")
    IN  CASE raw \in {"Public Holiday", "Sick on holiday", "Unpaid Absence (holiday week)"}
                 -> "public_holiday"
          [] raw \in {"Unpaid absence", "Palkaton loma"} -> "unpaid_absence"
          [] raw \in {"VACATION", "Flextime"} -> "paid_leave"
          [] raw \in {"Development", ""} -> "actual_work"

\* Hours of the first n entries that fall in bucket b
RECURSIVE C3_Sum(_, _)
C3_Sum(n, b) ==
    IF n = 0 THEN 0
    ELSE C3_Sum(n - 1, b)
         + (IF C3_Bucket(entries[n]) = b THEN EntryHours(entries[n]) ELSE 0)

\* C3: after each pass of the loop, every entry processed so far has added its
\* hours to exactly one of the four buckets, the one the priority order
\* holiday > unpaid absence > paid leave > actual work picks for its
\* lower-cased task name; a name matching several categories counts in the
\* highest only, and an entry with no task name counts as actual work.
C3_Classification ==
    pc \in {"loop", "done"} =>
        /\ \A i \in 1..idx : C3_Bucket(entries[i]) = C3_Expected(entries[i])
        /\ public_holiday_hours = C3_Sum(idx, "public_holiday")
        /\ unpaid_absence_hours = C3_Sum(idx, "unpaid_absence")
        /\ paid_leave_hours = C3_Sum(idx, "paid_leave")
        /\ actual_work_hours = C3_Sum(idx, "actual_work")
        /\ by_category = [actual_work |-> actual_work_hours,
                          public_holiday |-> public_holiday_hours,
                          paid_leave |-> paid_leave_hours,
                          unpaid_absence |-> unpaid_absence_hours]

\* C3 witness: "Unpaid Absence (holiday week)", which matches holiday and
\* absence keywords, and an entry with no task have been processed: the first
\* counted as public holiday only, the second as actual work.
C3_Witness ==
    /\ pc = "loop"
    /\ idx = 2
    /\ Get(Get(entries[1], "task", NoDict), "name", "") = "Unpaid Absence (holiday week)"
    /\ "task" \notin DOMAIN entries[2]
    /\ public_holiday_hours = 1000
    /\ unpaid_absence_hours = 0
    /\ actual_work_hours = 1000

RECURSIVE C4_AllHours(_)
C4_AllHours(n) == IF n = 0 THEN 0 ELSE C4_AllHours(n - 1) + EntryHours(entries[n])

C5_WorkPercentage ==
    pc = "done" =>
        /\ expected_hours = working_days * args.hours_per_day.n - unpaid_absence_hours
        /\ result.expected_hours = expected_hours
        /\ result.summary.work_percentage = work_percentage
        /\ expected_hours <= 0 => work_percentage = 0
        /\ expected_hours > 0 =>
               /\ 2 * (work_percentage * expected_hours - 1000 * total_hours) <= expected_hours
               /\ 2 * (1000 * total_hours - work_percentage * expected_hours) <= expected_hours
        /\ (/\ total_hours = 10000
            /\ unpaid_absence_hours = 1000
            /\ working_days = 20
            /\ args.hours_per_day.n = 750) =>
               (expected_hours = 14000 /\ work_percentage = 714)

\* C5 witness: February 2025 at 7.5 hours a day with 100 hours of work and 10
\* of unpaid absence: 20 working days, expected 140 hours, 71.4 percent.
C5_Witness ==
    /\ pc = "done"
    /\ year = 2025 /\ month = 2
    /\ args.hours_per_day.n = 750
    /\ actual_work_hours = 10000
    /\ unpaid_absence_hours = 1000
    /\ working_days = 20
    /\ expected_hours = 14000
    /\ work_percentage = 714

=============================================================================
